---- MODULE Spec2Model ----
(***************************************************************************)
(* Model of pick.py: the weighted card registry (class CardManager) and    *)
(* the command dispatcher (main).  Every command-line invocation is one    *)
(* process: it loads cards.csv and ban_status.csv, performs one registry   *)
(* operation, rewrites the table the operation touched, and exits.         *)
(*                                                                         *)
(* Weights are Python floats in the program.  The model computes with      *)
(* exact rationals <<numerator, denominator>> in lowest terms, so that     *)
(* "equal within floating tolerance" becomes plain equality; infinities    *)
(* and NaN are outside the model.                                          *)
(***************************************************************************)
EXTENDS Integers, Sequences, FiniteSets

VARIABLES cards, ban_status, data_file, ban_file, last

vars == <<cards, ban_status, data_file, ban_file, last>>

(***************************************************************************)
(* Bounds of the model.                                                    *)
(***************************************************************************)
\* largest |numerator| of a stored weight
MaxNum == 3
\* largest denominator of a stored weight
MaxDen == 2
\* largest number of draws of one pick command
MaxCount == 2

(***************************************************************************)
(* The arguments the commands are given.  Spec exercises the weight        *)
(* algebra on two cards and one tag; SpecNames has three cards, to tell    *)
(* list positions apart; SpecTags has two tags, to tell a card's banned    *)
(* tag from its other tags and the orders a tag set is written in.         *)
(***************************************************************************)
Names == {"A", "B"}
Tags == {"X"}
\* weights given to --add
Weights == {-1, 0, 1, 2}
\* percents given to --set and --tag-adjust
Percents == {-100, 0, 50, 75, 100, 200}
\* status tokens given to --ban-tag
Statuses == {"0", "1", " 1", "2"}

\* trial counts given to --test
Trials == {0, 1}

NamesN == {"A", "B", "C"}
WeightsN == {-1, 0, 1}
PercentsN == {0, 100}

TagsT == {"X", "Y"}
WeightsT == {1, 2}
PercentsT == {100}

(***************************************************************************)
(* Exact rational arithmetic (the program's float arithmetic).             *)
(***************************************************************************)
Abs(n) == IF n < 0 THEN -n ELSE n

RECURSIVE Gcd(_, _)
Gcd(a, b) == IF b = 0 THEN a ELSE Gcd(b, a % b)

\* the rational n/d (d # 0) in lowest terms with a positive denominator
Rat(n, d) ==
    LET g == Gcd(Abs(n), Abs(d))
        s == IF d < 0 THEN -1 ELSE 1
    IN  <<(s * n) \div g, (s * d) \div g>>

FromInt(n) == <<n, 1>>
Zero == <<0, 1>>
One == <<1, 1>>
Hundred == <<100, 1>>

RAdd(a, b) == Rat(a[1] * b[2] + b[1] * a[2], a[2] * b[2])
RSub(a, b) == Rat(a[1] * b[2] - b[1] * a[2], a[2] * b[2])
RMul(a, b) == Rat(a[1] * b[1], a[2] * b[2])
\* b # Zero
RDiv(a, b) == Rat(a[1] * b[2], a[2] * b[1])
RLt(a, b) == a[1] * b[2] < b[1] * a[2]
RLe(a, b) == a[1] * b[2] <= b[1] * a[2]
\* Python's max(a, b)
RMax(a, b) == IF RLt(a, b) THEN b ELSE a

\* a weight the model can store
Fits(w) == Abs(w[1]) <= MaxNum /\ w[2] <= MaxDen

(***************************************************************************)
(* The registry state.  A card is [name, weight, tags]; cards is the       *)
(* list self.cards; ban_status is the insertion-ordered dict               *)
(* self.ban_status, a sequence of [tag, banned] entries with distinct      *)
(* tags.  A file is [exists, rows]; a row is the sequence of its fields.   *)
(***************************************************************************)
NoFile == [exists |-> FALSE, rows |-> <<>>]

\* self.ban_status.get(tag, False)
BanGet(bs, tag) == \E i \in 1..Len(bs) : bs[i].tag = tag /\ bs[i].banned

\* self.ban_status[tag] = banned
BanPut(bs, tag, banned) ==
    IF \E i \in 1..Len(bs) : bs[i].tag = tag
    THEN [i \in 1..Len(bs) |->
            IF bs[i].tag = tag THEN [tag |-> tag, banned |-> banned] ELSE bs[i]]
    ELSE Append(bs, [tag |-> tag, banned |-> banned])

RECURSIVE LoadRows(_)
LoadRows(rows) ==
    IF rows = <<>> THEN <<>>
    ELSE LET row == Head(rows)
         IN  IF Len(row) < 2 THEN LoadRows(Tail(rows))
             ELSE <<[name |-> row[1], weight |-> row[2],
                     tags |-> {row[i] : i \in 3..Len(row)}]>>
                  \o LoadRows(Tail(rows))

\* the card list a new process holds after reading cards.csv; the weight
\* field is str(float), which float() reads back to the same value
_load_data(file) == IF file.exists THEN LoadRows(file.rows) ELSE <<>>

RECURSIVE LoadBanRows(_, _)
LoadBanRows(rows, bs) ==
    IF rows = <<>> THEN bs
    ELSE LET row == Head(rows)
         IN  IF Len(row) >= 2
             THEN LoadBanRows(Tail(rows), BanPut(bs, row[1], row[2] = "1"))
             ELSE LoadBanRows(Tail(rows), bs)

_load_ban_status(file) == IF file.exists THEN LoadBanRows(file.rows, <<>>) ELSE <<>>

\* the orders in which list(card['tags']) may enumerate a set
Orderings(S) ==
    {s \in [1..Cardinality(S) -> S] : \A x \in S : \E i \in 1..Cardinality(S) : s[i] = x}

RECURSIVE SaveRows(_)
SaveRows(cs) ==
    IF cs = <<>> THEN {<<>>}
    ELSE LET c == Head(cs)
         IN  {<<(<<c.name, c.weight>> \o o)>> \o rest :
                 o \in Orderings(c.tags), rest \in SaveRows(Tail(cs))}

\* the contents cards.csv may have after _save_data
_save_data(cs) == {[exists |-> TRUE, rows |-> r] : r \in SaveRows(cs)}

\* the contents of ban_status.csv after _save_ban_status
_save_ban_status(bs) ==
    [exists |-> TRUE,
     rows |-> [i \in 1..Len(bs) |-> <<bs[i].tag, IF bs[i].banned THEN "1" ELSE "0">>]]

\* variant: a card counts as banned only when all its tags are banned
_is_card_banned_all(bs, card) ==
    card.tags # {} /\ \A tag \in card.tags : BanGet(bs, tag)

_is_card_banned(bs, card) == \E tag \in card.tags : BanGet(bs, tag)

RECURSIVE SumWeights(_)
SumWeights(cs) ==
    IF cs = <<>> THEN Zero ELSE RAdd(Head(cs).weight, SumWeights(Tail(cs)))

_get_total_weight(cs, bs, include_banned) ==
    IF include_banned THEN SumWeights(cs)
    ELSE LET NotBanned(c) == ~_is_card_banned(bs, c)
         IN  SumWeights(SelectSeq(cs, NotBanned))

\* the 0-based index of the first card called name, or -1
_find_card(cs, name) ==
    IF \E i \in 1..Len(cs) : cs[i].name = name
    THEN (CHOOSE i \in 1..Len(cs) :
             cs[i].name = name /\ \A j \in 1..(i - 1) : cs[j].name # name) - 1
    ELSE -1

_get_normalized_probability(cs, bs, name) ==
    LET total == _get_total_weight(cs, bs, FALSE)
        idx == _find_card(cs, name)
    IN  IF idx < 0 \/ _is_card_banned(bs, cs[idx + 1]) THEN Zero
        ELSE IF total = Zero THEN Zero
        ELSE RMul(RDiv(cs[idx + 1].weight, total), Hundred)

\* del self.cards[idx], idx 0-based
DelAt(cs, idx) == SubSeq(cs, 1, idx) \o SubSeq(cs, idx + 2, Len(cs))

SetWeight(cs, idx, w) == [cs EXCEPT ![idx + 1].weight = w]

(***************************************************************************)
(* The registry's methods, as functions of the card list cs and the ban    *)
(* dict bs the process holds.  Each yields [ret, cards, save]: the value   *)
(* returned ("raise" when an exception leaves the method), the card list   *)
(* afterwards, and whether _save_data ran.                                  *)
(***************************************************************************)
\* variant: no lookup, the card is always appended
add_card_append(cs, name, weight) ==
    [ret |-> "prob",
     cards |-> Append(cs, [name |-> name, weight |-> RMax(Zero, weight), tags |-> {}]),
     save |-> TRUE]

add_card(cs, name, weight) ==
    LET w == RMax(Zero, weight)
        idx == _find_card(cs, name)
    IN  [ret |-> "prob",
         cards |-> IF idx >= 0 THEN SetWeight(cs, idx, w)
                   ELSE Append(cs, [name |-> name, weight |-> w, tags |-> {}]),
         save |-> TRUE]

\* variant: the tag is added but the table is not rewritten
tag_card_unsaved(cs, name, tag) ==
    LET idx == _find_card(cs, name)
    IN  IF idx < 0 THEN [ret |-> "False", cards |-> cs, save |-> FALSE]
        ELSE [ret |-> "True",
              cards |-> [cs EXCEPT ![idx + 1].tags = @ \cup {tag}],
              save |-> FALSE]

tag_card(cs, name, tag) ==
    LET idx == _find_card(cs, name)
    IN  IF idx < 0 THEN [ret |-> "False", cards |-> cs, save |-> FALSE]
        ELSE [ret |-> "True",
              cards |-> [cs EXCEPT ![idx + 1].tags = @ \cup {tag}],
              save |-> TRUE]

\* what the three variants below share with set_normalized_probability
SetOutcome(cs, name, target_prob, at_zero, at_hundred, new_weight) ==
    LET idx == _find_card(cs, name)
        others_weight == RSub(SumWeights(cs), cs[idx + 1].weight)
    IN  IF idx < 0 THEN [ret |-> "False", cards |-> cs, save |-> FALSE]
        ELSE IF target_prob = Zero THEN at_zero
        ELSE IF others_weight = Zero
        THEN [ret |-> "True", cards |-> SetWeight(cs, idx, One), save |-> TRUE]
        ELSE IF target_prob = Hundred THEN at_hundred
        ELSE [ret |-> "True",
              cards |-> SetWeight(cs, idx, RMax(Zero, new_weight)),
              save |-> TRUE]

\* variant: the weight is target * others / 100
set_normalized_probability_linear(cs, name, target_prob) ==
    LET idx == _find_card(cs, name)
        others_weight == RSub(SumWeights(cs), cs[idx + 1].weight)
    IN  SetOutcome(cs, name, target_prob,
            [ret |-> "True", cards |-> DelAt(cs, idx), save |-> TRUE],
            [ret |-> "raise", cards |-> cs, save |-> FALSE],
            RDiv(RMul(target_prob, others_weight), Hundred))

\* variant: a target of 100 is answered by zeroing the card
set_normalized_probability_unguarded(cs, name, target_prob) ==
    LET idx == _find_card(cs, name)
        others_weight == RSub(SumWeights(cs), cs[idx + 1].weight)
    IN  SetOutcome(cs, name, target_prob,
            [ret |-> "True", cards |-> DelAt(cs, idx), save |-> TRUE],
            [ret |-> "True", cards |-> SetWeight(cs, idx, Zero), save |-> TRUE],
            RDiv(RMul(target_prob, others_weight), RSub(Hundred, target_prob)))

\* variant: a target of 0 zeroes the card and keeps it
set_normalized_probability_zeroed(cs, name, target_prob) ==
    LET idx == _find_card(cs, name)
        others_weight == RSub(SumWeights(cs), cs[idx + 1].weight)
    IN  SetOutcome(cs, name, target_prob,
            [ret |-> "True", cards |-> SetWeight(cs, idx, Zero), save |-> TRUE],
            [ret |-> "raise", cards |-> cs, save |-> FALSE],
            RDiv(RMul(target_prob, others_weight), RSub(Hundred, target_prob)))

set_normalized_probability(cs, name, target_prob) ==
    LET idx == _find_card(cs, name)
        total == SumWeights(cs)
        others_weight == RSub(total, cs[idx + 1].weight)
        den == RSub(Hundred, target_prob)
    IN  IF idx < 0 THEN [ret |-> "False", cards |-> cs, save |-> FALSE]
        ELSE IF target_prob = Zero
        THEN [ret |-> "True", cards |-> DelAt(cs, idx), save |-> TRUE]
        ELSE IF others_weight = Zero
        THEN [ret |-> "True", cards |-> SetWeight(cs, idx, One), save |-> TRUE]
        ELSE IF den = Zero
        \* ZeroDivisionError at the division, before any assignment
        THEN [ret |-> "raise", cards |-> cs, save |-> FALSE]
        ELSE [ret |-> "True",
              cards |-> SetWeight(cs, idx,
                           RMax(Zero, RDiv(RMul(target_prob, others_weight), den))),
              save |-> TRUE]

\* variant: a target of 100 is refused unless the other weight is negative
adjust_tag_probability_ge(cs, tag, target_prob) ==
    LET HasTag(c) == tag \in c.tags
        NoTag(c) == tag \notin c.tags
        tag_cards == SelectSeq(cs, HasTag)
        tag_weight == SumWeights(tag_cards)
        other_weight == SumWeights(SelectSeq(cs, NoTag))
        k == RDiv(RMul(target_prob, other_weight),
                  RMul(tag_weight, RSub(Hundred, target_prob)))
        Failed == [ret |-> "False", cards |-> cs, save |-> FALSE]
    IN  IF tag_cards = <<>> THEN Failed
        ELSE IF target_prob = Zero
        THEN [ret |-> "True",
              cards |-> [i \in 1..Len(cs) |->
                           IF HasTag(cs[i]) THEN [cs[i] EXCEPT !.weight = Zero]
                           ELSE cs[i]],
              save |-> TRUE]
        ELSE IF target_prob = Hundred
        THEN IF RLe(Zero, other_weight) THEN Failed
             ELSE [ret |-> "True", cards |-> cs, save |-> TRUE]
        ELSE IF tag_weight = Zero THEN Failed
        ELSE [ret |-> "True",
              cards |-> [i \in 1..Len(cs) |->
                           IF HasTag(cs[i])
                           THEN [cs[i] EXCEPT !.weight = RMul(@, k)]
                           ELSE cs[i]],
              save |-> TRUE]

adjust_tag_probability(cs, tag, target_prob) ==
    LET HasTag(c) == tag \in c.tags
        NoTag(c) == tag \notin c.tags
        tag_cards == SelectSeq(cs, HasTag)
        other_cards == SelectSeq(cs, NoTag)
        tag_weight == SumWeights(tag_cards)
        other_weight == SumWeights(other_cards)
        k == RDiv(RMul(target_prob, other_weight),
                  RMul(tag_weight, RSub(Hundred, target_prob)))
        Failed == [ret |-> "False", cards |-> cs, save |-> FALSE]
    IN  IF tag_cards = <<>> THEN Failed
        ELSE IF target_prob = Zero
        THEN [ret |-> "True",
              cards |-> [i \in 1..Len(cs) |->
                           IF HasTag(cs[i]) THEN [cs[i] EXCEPT !.weight = Zero]
                           ELSE cs[i]],
              save |-> TRUE]
        ELSE IF target_prob = Hundred
        THEN IF RLt(Zero, other_weight) THEN Failed
             ELSE [ret |-> "True", cards |-> cs, save |-> TRUE]
        ELSE IF tag_weight = Zero THEN Failed
        ELSE [ret |-> "True",
              cards |-> [i \in 1..Len(cs) |->
                           IF HasTag(cs[i])
                           THEN [cs[i] EXCEPT !.weight = RMul(@, k)]
                           ELSE cs[i]],
              save |-> TRUE]

delete_card(cs, name) ==
    LET idx == _find_card(cs, name)
    IN  IF idx < 0 THEN [ret |-> "False", cards |-> cs, save |-> FALSE]
        ELSE [ret |-> "True", cards |-> DelAt(cs, idx), save |-> TRUE]

\* status.strip()
Strip(status) == IF status = " 1" THEN "1" ELSE status

\* [ret, ban_status, save]: save tells whether _save_ban_status ran
ban_tag(bs, tag, status) ==
    IF Strip(status) \notin {"0", "1"}
    THEN [ret |-> "False", ban_status |-> bs, save |-> FALSE]
    ELSE [ret |-> "True", ban_status |-> BanPut(bs, tag, Strip(status) = "1"),
          save |-> TRUE]

\* variant: banned cards are drawn too
pick_card_any(cs, bs, count) ==
    LET total == SumWeights(cs)
        AllNonNeg == \A i \in 1..Len(cs) : RLe(Zero, cs[i].weight)
        Drawable == {cs[i].name : i \in
                       {j \in 1..Len(cs) : AllNonNeg => RLt(Zero, cs[j].weight)}}
    IN  IF RLe(total, Zero) THEN {[kind |-> "None", names |-> <<>>]}
        ELSE {[kind |-> IF count = 1 THEN "name" ELSE "list", names |-> r] :
                 r \in [1..count -> Drawable]}

\* the values pick_card may return: [kind, names] with kind "None", "name"
\* (count = 1, names holds the one name) or "list".  random.choices draws
\* a card of weight 0 never; with a negative weight among the valid cards
\* its result is unspecified, any valid card.
pick_card(cs, bs, count) ==
    LET NotBanned(c) == ~_is_card_banned(bs, c)
        valid_cards == SelectSeq(cs, NotBanned)
        total == SumWeights(valid_cards)
        AllNonNeg == \A i \in 1..Len(valid_cards) : RLe(Zero, valid_cards[i].weight)
        Drawable == {valid_cards[i].name : i \in
                       {j \in 1..Len(valid_cards) :
                           AllNonNeg => RLt(Zero, valid_cards[j].weight)}}
    IN  IF RLe(total, Zero) THEN {[kind |-> "None", names |-> <<>>]}
        ELSE {[kind |-> IF count = 1 THEN "name" ELSE "list", names |-> r] :
                 r \in [1..count -> Drawable]}

\* list.sort(key, reverse=True): stable, descending by probability
\* (by_prob) or by weight
EntryKey(e, by_prob) == IF by_prob THEN e.probability ELSE e.weight

InsertDesc(sorted, e, by_prob) ==
    LET n == Cardinality({i \in 1..Len(sorted) :
                 RLe(EntryKey(e, by_prob), EntryKey(sorted[i], by_prob))})
    IN  SubSeq(sorted, 1, n) \o <<e>> \o SubSeq(sorted, n + 1, Len(sorted))

RECURSIVE SortDesc(_, _, _)
SortDesc(done, todo, by_prob) ==
    IF todo = <<>> THEN done
    ELSE SortDesc(InsertDesc(done, Head(todo), by_prob), Tail(todo), by_prob)

\* the entries of list_cards: [name, marked, weight, probability, tags];
\* marked stands for the " [BANNED]" suffix of the name
list_cards(cs, bs) ==
    LET total_valid == _get_total_weight(cs, bs, FALSE)
        Entry(c) ==
            IF _is_card_banned(bs, c)
            THEN [name |-> c.name, marked |-> TRUE, weight |-> c.weight,
                  probability |-> Zero, tags |-> c.tags]
            ELSE [name |-> c.name, marked |-> FALSE, weight |-> c.weight,
                  probability |-> IF RLt(Zero, total_valid)
                                  THEN RMul(RDiv(c.weight, total_valid), Hundred)
                                  ELSE Zero,
                  tags |-> c.tags]
        entries == [i \in 1..Len(cs) |-> Entry(cs[i])]
        IsValid(e) == ~e.marked
        IsBanned(e) == e.marked
    IN  SortDesc(<<>>, SelectSeq(entries, IsValid), TRUE)
        \o SortDesc(<<>>, SelectSeq(entries, IsBanned), FALSE)

(***************************************************************************)
(* One command-line invocation: CardManager() loads both files, main       *)
(* dispatches one command, the process exits.  cards and ban_status are    *)
(* the in-memory registry at exit; last records the command, its           *)
(* arguments, the method's return value and the message class printed.     *)
(***************************************************************************)
\* self.cards and self.ban_status after CardManager.__init__
manager_cards == _load_data(data_file)
manager_ban_status == _load_ban_status(ban_file)

NoLast ==
    [op |-> "none", name |-> "", tag |-> "", num |-> 0, status |-> "",
     ret |-> "", out |-> "", picks |-> <<>>, prob |-> Zero]

AllFit(cs) == \A i \in 1..Len(cs) : Fits(cs[i].weight)

\* the end of a command that ran a card-table method with outcome r; a
\* command whose result holds a weight the model cannot store is left out
Finish(r, rec) ==
    /\ AllFit(r.cards)
    /\ cards' = r.cards
    /\ ban_status' = manager_ban_status
    /\ IF r.save THEN data_file' \in _save_data(r.cards)
       ELSE data_file' = data_file
    /\ ban_file' = ban_file
    /\ last' = rec

\* a command that changes nothing
ReadOnly(rec) ==
    /\ cards' = manager_cards
    /\ ban_status' = manager_ban_status
    /\ UNCHANGED <<data_file, ban_file>>
    /\ last' = rec

Init ==
    /\ cards = <<>>
    /\ ban_status = <<>>
    /\ data_file = NoFile
    /\ ban_file = NoFile
    /\ last = NoLast

\* main prints the pool-empty line when the value returned is falsy; the
\* names of the model are not empty, so that is when pick_card returned None
Pick(count) ==
    \E res \in pick_card(manager_cards, manager_ban_status, count) :
        ReadOnly([NoLast EXCEPT !.op = "pick", !.num = count, !.ret = res.kind,
                    !.picks = res.names,
                    !.out = IF count = 1
                            THEN (IF res.kind = "None" THEN "pool_empty" ELSE "drawn")
                            ELSE (IF res.kind = "None" THEN "pool_empty"
                                  ELSE "drawn_list")])

Add(name, weight) ==
    LET r == add_card(manager_cards, name, FromInt(weight))
    IN  Finish(r, [NoLast EXCEPT !.op = "add", !.name = name, !.num = weight,
                     !.ret = r.ret, !.out = "added",
                     !.prob = _get_normalized_probability(
                                  r.cards, manager_ban_status, name)])

Delete(name) ==
    LET r == delete_card(manager_cards, name)
    IN  Finish(r, [NoLast EXCEPT !.op = "delete", !.name = name, !.ret = r.ret,
                     !.out = IF r.ret = "True" THEN "deleted" ELSE "not_found"])

List ==
    ReadOnly([NoLast EXCEPT !.op = "list",
                !.out = IF list_cards(manager_cards, manager_ban_status) = <<>>
                        THEN "pool_empty" ELSE "listed"])

Tag(name, tag) ==
    LET r == tag_card(manager_cards, name, tag)
    IN  Finish(r, [NoLast EXCEPT !.op = "tag", !.name = name, !.tag = tag,
                     !.ret = r.ret,
                     !.out = IF r.ret = "True" THEN "tagged" ELSE "not_found"])

Set(name, prob) ==
    LET r == set_normalized_probability(manager_cards, name, FromInt(prob))
    IN  Finish(r, [NoLast EXCEPT !.op = "set", !.name = name, !.num = prob,
                     !.ret = r.ret,
                     !.out = CASE r.ret = "True" -> "updated"
                               [] r.ret = "False" -> "not_found"
                               [] OTHER -> "op_failed"])

TagAdjust(tag, prob) ==
    LET r == adjust_tag_probability(manager_cards, tag, FromInt(prob))
    IN  Finish(r, [NoLast EXCEPT !.op = "tag_adjust", !.tag = tag, !.num = prob,
                     !.ret = r.ret,
                     !.out = IF r.ret = "True" THEN "adjusted" ELSE "adjust_failed"])

BanTag(tag, status) ==
    LET r == ban_tag(manager_ban_status, tag, status)
    IN  /\ cards' = manager_cards
        /\ ban_status' = r.ban_status
        /\ data_file' = data_file
        /\ ban_file' = IF r.save THEN _save_ban_status(r.ban_status) ELSE ban_file
        /\ last' = [NoLast EXCEPT !.op = "ban_tag", !.tag = tag, !.status = status,
                      !.ret = r.ret,
                      !.out = IF r.ret = "True" THEN "ban_set" ELSE "invalid_status"]

\* --test name|trials: trials draws are counted and count / trials is
\* printed; with trials = 0 the division raises
Test(card_name, trials) ==
    ReadOnly([NoLast EXCEPT !.op = "test", !.name = card_name, !.num = trials,
                !.ret = IF trials = 0 THEN "raise" ELSE "None",
                !.out = IF trials = 0 THEN "op_failed" ELSE "tested"])

Command(names, tags, weights, percents) ==
    \/ \E count \in 1..MaxCount : Pick(count)
    \/ \E name \in names, weight \in weights : Add(name, weight)
    \/ \E name \in names : Delete(name)
    \/ List
    \/ \E name \in names, tag \in tags : Tag(name, tag)
    \/ \E name \in names, prob \in percents : Set(name, prob)
    \/ \E tag \in tags, prob \in percents : TagAdjust(tag, prob)
    \/ \E tag \in tags, status \in Statuses : BanTag(tag, status)
    \/ \E name \in names, trials \in Trials : Test(name, trials)

Next == Command(Names, Tags, Weights, Percents)

Spec == Init /\ [][Next]_vars

NextNames == Command(NamesN, Tags, WeightsN, PercentsN)

SpecNames == Init /\ [][NextNames]_vars

NextTags == Command(Names, TagsT, WeightsT, PercentsT)

SpecTags == Init /\ [][NextTags]_vars

(***************************************************************************)
(* Notions the properties are stated in.  In a step the unprimed           *)
(* manager_cards and manager_ban_status are the registry the invocation    *)
(* loaded, the primed cards and ban_status the registry it ended with,     *)
(* and last' tells which command the step ran.                             *)
(***************************************************************************)
Exists(cs, name) == \E i \in 1..Len(cs) : cs[i].name = name

\* the card called name (there is one)
CardOf(cs, name) == cs[CHOOSE i \in 1..Len(cs) : cs[i].name = name]

\* the cards other than name, in list order
Others(cs, name) ==
    LET Other(c) == c.name # name
    IN  SelectSeq(cs, Other)

Banned(bs, c) ==
    \E t \in c.tags : \E i \in 1..Len(bs) : bs[i].tag = t /\ bs[i].banned

\* the total weight of the cards no banned tag is on
ValidTotal(cs, bs) ==
    LET Valid(c) == ~Banned(bs, c)
    IN  SumWeights(SelectSeq(cs, Valid))

TaggedTotal(cs, tag) ==
    LET HasTag(c) == tag \in c.tags
    IN  SumWeights(SelectSeq(cs, HasTag))

UntaggedTotal(cs, tag) ==
    LET NoTag(c) == tag \notin c.tags
    IN  SumWeights(SelectSeq(cs, NoTag))

\* part is percent % of whole
IsPercentOf(part, whole, percent) ==
    /\ whole # Zero
    /\ RMul(part, Hundred) = RMul(FromInt(percent), whole)

\* the share of part in whole is percent %, a share of nothing counting as
\* 0 % (as the probability query counts it)
ShareIs(part, whole, percent) ==
    IF whole = Zero THEN percent = 0
    ELSE RMul(part, Hundred) = RMul(FromInt(percent), whole)

UniqueNames(cs) == \A i, j \in 1..Len(cs) : cs[i].name = cs[j].name => i = j

FilesUnchanged == data_file' = data_file /\ ban_file' = ban_file

\* total - card['weight'] for the card called name
OthersWeight(cs, name) == RSub(SumWeights(cs), CardOf(cs, name).weight)

AnyBanned(cs, bs) == \E i \in 1..Len(cs) : Banned(bs, cs[i])

(***************************************************************************)
(* C1.  Every stored card weight is >= 0 in every state reachable from     *)
(* the empty registry, whatever numeric arguments the commands are given.  *)
(* adjust_tag_probability multiplies by a negative k for a target below 0  *)
(* or above 100 and does not clamp.                                        *)
(***************************************************************************)
C1_WeightsNonNegative == \A i \in 1..Len(cards) : RLe(Zero, cards[i].weight)

(***************************************************************************)
(* C2.  The case: --set name|p returned True with 0 < p < 100 on a card    *)
(* whose competitors hold positive weight.                                 *)
(***************************************************************************)
C2_Case ==
    /\ last'.op = "set"
    /\ last'.ret = "True"
    /\ 0 < last'.num /\ last'.num < 100
    /\ Exists(manager_cards, last'.name)
    /\ RLt(Zero, OthersWeight(manager_cards, last'.name))

\* C2 as claimed: after such a set, the normalized probability reported
\* for the card (0 if banned, else weight over the non-banned total) is p.
C2_ReportedProbabilityIsTarget ==
    [][C2_Case =>
         _get_normalized_probability(cards', ban_status', last'.name)
             = FromInt(last'.num)]_vars

\* C2 as amended: after such a set, the card's weight is p percent of the
\* total weight of all cards, banned or not; the reported normalized
\* probability is p when no card is banned.
C2_ShareOfAllCardsIsTarget ==
    [][C2_Case =>
         /\ IsPercentOf(CardOf(cards', last'.name).weight, SumWeights(cards'),
                        last'.num)
         /\ ~AnyBanned(cards', ban_status') =>
                _get_normalized_probability(cards', ban_status', last'.name)
                    = FromInt(last'.num)]_vars

C2_Witness ==
    /\ last.op = "set" /\ last.ret = "True" /\ last.num = 75
    /\ Exists(cards, last.name)
    /\ RLt(Zero, OthersWeight(cards, last.name))
    /\ AnyBanned(cards, ban_status)

(***************************************************************************)
(* C3.  Whenever --tag-adjust tag|p succeeds, the weights of the cards     *)
(* carrying tag sum to p percent of the weight of all cards.  With no      *)
(* weight outside the tag and 0 < p < 100, k is 0 and every weight         *)
(* becomes 0.                                                              *)
(***************************************************************************)
C3_TagShareIsTarget ==
    (last.op = "tag_adjust" /\ last.ret = "True") =>
        ShareIs(TaggedTotal(cards, last.tag), SumWeights(cards), last.num)

(***************************************************************************)
(* C4.  --set name|100 on an existing card whose competitors hold nonzero  *)
(* weight ends in the reported failure, reports no success, and leaves     *)
(* the card list and the persisted tables as they were.                    *)
(***************************************************************************)
C4_SetHundredFails ==
    [][(/\ last'.op = "set"
        /\ last'.num = 100
        /\ Exists(manager_cards, last'.name)
        /\ OthersWeight(manager_cards, last'.name) # Zero)
       => /\ last'.ret = "raise"
          /\ last'.out = "op_failed"
          /\ cards' = manager_cards
          /\ FilesUnchanged]_vars

C4_Witness ==
    /\ last.op = "set" /\ last.num = 100 /\ last.out = "op_failed"
    /\ Exists(cards, last.name)
    /\ OthersWeight(cards, last.name) # Zero
    /\ Len(cards) = 2

(***************************************************************************)
(* C5.  --ban-tag changes no card and not the card table.  After a tag is  *)
(* banned, every card carrying it has probability 0, and a non-banned      *)
(* card's probability is its weight over the non-banned total (0 if that   *)
(* total is 0), in the probability query and in the listing alike;         *)
(* banning a tag no card carries changes no probability.                   *)
(***************************************************************************)
C5_BanKeepsWeights ==
    [][last'.op = "ban_tag" =>
         LET Prob(name) == _get_normalized_probability(cards', ban_status', name)
             total == ValidTotal(cards', ban_status')
             listing == list_cards(cards', ban_status')
         IN  /\ cards' = manager_cards
             /\ data_file' = data_file
             /\ (last'.ret = "True" /\ Strip(last'.status) = "1") =>
                  /\ \A i \in 1..Len(cards') :
                        last'.tag \in cards'[i].tags =>
                            Prob(cards'[i].name) = Zero
                  /\ \A i \in 1..Len(cards') :
                        ~Banned(ban_status', cards'[i]) =>
                            IF total = Zero THEN Prob(cards'[i].name) = Zero
                            ELSE RMul(Prob(cards'[i].name), total)
                                    = RMul(cards'[i].weight, Hundred)
                  /\ \A j \in 1..Len(listing) :
                        listing[j].probability = Prob(listing[j].name)
                  /\ (\A i \in 1..Len(cards') : last'.tag \notin cards'[i].tags) =>
                        \A i \in 1..Len(cards') :
                            Prob(cards'[i].name) =
                                _get_normalized_probability(
                                    manager_cards, manager_ban_status,
                                    cards'[i].name)]_vars

\* X was just banned; a card carries X and the not banned Y, another card
\* is not banned and shares the remaining weight alone
C5_Witness ==
    /\ last.op = "ban_tag" /\ last.ret = "True" /\ last.tag = "X"
    /\ Strip(last.status) = "1"
    /\ ~BanGet(ban_status, "Y")
    /\ Len(cards) = 2
    /\ \E i, j \in 1..Len(cards) :
          /\ cards[i].tags = {"X", "Y"} /\ cards[i].weight = <<2, 1>>
          /\ ~Banned(ban_status, cards[j]) /\ cards[j].weight = <<1, 1>>
          /\ _get_normalized_probability(cards, ban_status, cards[j].name) = Hundred

(***************************************************************************)
(* C6.  --pick count (count >= 1): when the non-banned cards hold total    *)
(* weight > 0, exactly count names are returned (one name for count = 1),  *)
(* each of a card that is not banned, and nothing changes; otherwise the   *)
(* pool is reported empty and no name is returned.                         *)
(***************************************************************************)
C6_DrawFromNonBanned ==
    [][last'.op = "pick" =>
         LET total == ValidTotal(manager_cards, manager_ban_status)
         IN  /\ cards' = manager_cards
             /\ ban_status' = manager_ban_status
             /\ FilesUnchanged
             /\ RLt(Zero, total) =>
                  /\ Len(last'.picks) = last'.num
                  /\ last'.ret = (IF last'.num = 1 THEN "name" ELSE "list")
                  /\ \A i \in 1..Len(last'.picks) :
                        \E j \in 1..Len(manager_cards) :
                            /\ manager_cards[j].name = last'.picks[i]
                            /\ ~Banned(manager_ban_status, manager_cards[j])
             /\ ~RLt(Zero, total) =>
                  /\ last'.ret = "None"
                  /\ last'.out = "pool_empty"
                  /\ last'.picks = <<>>]_vars

\* two names were drawn while a card of positive weight was banned
C6_Witness ==
    /\ last.op = "pick" /\ last.num = 2 /\ Len(last.picks) = 2
    /\ \E i \in 1..Len(cards) :
          Banned(ban_status, cards[i]) /\ RLt(Zero, cards[i].weight)

(***************************************************************************)
(* C7.  After --add name|w the card exists with weight max(0, w); a card   *)
(* that existed keeps its tags and its place and no card is added; a new   *)
(* card is appended with no tags; no two cards ever share a name.          *)
(***************************************************************************)
C7_AddSetsWeightOnce ==
    [][/\ UniqueNames(cards')
       /\ last'.op = "add" =>
            LET name == last'.name
                w == IF last'.num < 0 THEN Zero ELSE FromInt(last'.num)
                pre == manager_cards
            IN  /\ Exists(cards', name)
                /\ CardOf(cards', name).weight = w
                /\ Exists(pre, name) =>
                     /\ Len(cards') = Len(pre)
                     /\ \A i \in 1..Len(pre) :
                           cards'[i] = IF pre[i].name = name
                                       THEN [pre[i] EXCEPT !.weight = w]
                                       ELSE pre[i]
                /\ ~Exists(pre, name) =>
                     cards' = Append(pre, [name |-> name, weight |-> w,
                                           tags |-> {}])]_vars

\* a tagged card in the middle of three was added again, with a negative
\* weight
C7_Witness ==
    /\ last.op = "add" /\ last.num = -1
    /\ Len(cards) = 3
    /\ cards[2].name = last.name
    /\ cards[2].tags # {}
    /\ cards[2].weight = Zero

(***************************************************************************)
(* C8.  --set name|0 on an existing card removes the card: afterwards      *)
(* lookup, delete, tag and set of that name fail with not-found, and the   *)
(* other cards are as they were, in the same order.                        *)
(***************************************************************************)
C8_SetZeroRemoves ==
    [][(/\ last'.op = "set"
        /\ last'.num = 0
        /\ Exists(manager_cards, last'.name))
       => /\ last'.ret = "True"
          /\ ~Exists(cards', last'.name)
          /\ _find_card(cards', last'.name) = -1
          /\ cards' = Others(manager_cards, last'.name)
          /\ delete_card(cards', last'.name).ret = "False"
          /\ \A tag \in Tags : tag_card(cards', last'.name, tag).ret = "False"
          /\ \A p \in Percents :
                set_normalized_probability(cards', last'.name, FromInt(p)).ret
                    = "False"]_vars

\* the middle card of three was removed by --set name|0
C8_Witness ==
    /\ last.op = "set" /\ last.num = 0 /\ last.ret = "True"
    /\ Len(cards) = 2
    /\ cards[1].name = "A" /\ cards[2].name = "C"
    /\ last.name = "B"

(***************************************************************************)
(* C9.  --tag-adjust tag|p fails exactly when no card carries tag, or      *)
(* p = 100 while the untagged weight is > 0, or p is neither 0 nor 100     *)
(* while the tagged weight is 0; a failure changes no weight and writes    *)
(* nothing; every other call reports success.                              *)
(***************************************************************************)
C9_AdjustFailsExactlyWhen ==
    [][last'.op = "tag_adjust" =>
         LET tag == last'.tag
             p == last'.num
             pre == manager_cards
             Fails ==
                \/ \A i \in 1..Len(pre) : tag \notin pre[i].tags
                \/ p = 100 /\ RLt(Zero, UntaggedTotal(pre, tag))
                \/ p # 0 /\ p # 100 /\ TaggedTotal(pre, tag) = Zero
         IN  /\ Fails =>
                /\ last'.ret = "False"
                /\ last'.out = "adjust_failed"
                /\ cards' = pre
                /\ FilesUnchanged
             /\ ~Fails =>
                /\ last'.ret = "True"
                /\ last'.out = "adjusted"]_vars

\* a target of 100 was refused: the tag is carried and weight stands
\* outside it
C9_Witness ==
    /\ last.op = "tag_adjust" /\ last.ret = "False" /\ last.num = 100
    /\ \E i \in 1..Len(cards) : last.tag \in cards[i].tags
    /\ RLt(Zero, UntaggedTotal(cards, last.tag))

(***************************************************************************)
(* C10.  What the next invocation loads is the registry the previous one   *)
(* ended with: same cards in the same order with the same weights and tag  *)
(* sets, same ban dict.  A command that changed the registry rewrote the   *)
(* table it touched; a command that failed wrote nothing and changed       *)
(* nothing.                                                                *)
(***************************************************************************)
C10_LoadedIsLeft ==
    [][/\ _load_data(data_file') = cards'
       /\ _load_ban_status(ban_file') = ban_status'
       /\ cards' # manager_cards => data_file' \in _save_data(cards')
       /\ ban_status' # manager_ban_status =>
              ban_file' = _save_ban_status(ban_status')
       /\ last'.ret \in {"False", "raise"} =>
              /\ FilesUnchanged
              /\ cards' = manager_cards
              /\ ban_status' = manager_ban_status]_vars

\* a card with two tags was written with Y before X, next to another
\* card, and both tags have an entry in the ban table
C10_Witness ==
    /\ Len(cards) = 2
    /\ data_file.exists /\ ban_file.exists
    /\ \E i \in 1..Len(data_file.rows) :
          /\ Len(data_file.rows[i]) = 4
          /\ data_file.rows[i][3] = "Y"
    /\ Len(ban_status) = 2
    /\ ban_status[1].tag = "Y" /\ ~ban_status[1].banned
    /\ last.op = "tag"

====
